---- MODULE Spec2Model ----
(***************************************************************************)
(* Model of hcm/synth.py: the time base, the two 4th-order recursive       *)
(* filters, the ADSR envelope builder and the signal utilities.            *)
(*                                                                         *)
(* The program is a library of functions over numpy arrays.  The state is  *)
(* the set of function names the module holds once its statements have     *)
(* run, and the record of the last call made by a caller: the function     *)
(* called, the caller's argument arrays before the call, the same arrays   *)
(* after the call (numpy arrays are passed by reference), and the outcome  *)
(* (a returned array or the Python exception raised).                      *)
(*                                                                         *)
(* Numbers are exact rationals <<n, d>> in lowest terms with d > 0; the    *)
(* IEEE values nan / +inf / -inf that numpy produces on a division by zero *)
(* are <<0,0>>, <<1,0>>, <<-1,0>>.  Rounding of the float formats is not   *)
(* modelled (time's dtype=np.float32 included): a value of the model and   *)
(* the float the code computes agree up to the rounding of the operations  *)
(* that produced it, and a float the code rounds to exactly 0 or away from *)
(* it may not be 0, or be 0, here.  2*np.pi, a double, is carried as the   *)
(* rational TwoPi whose nearest double it is.  A number with denominator 1 *)
(* is a Python int, any other number a Python float; a product with a      *)
(* float factor is a float.                                                *)
(*                                                                         *)
(* The def statements of lowpass and highpass evaluate the default         *)
(* sample_rate=R when they run, and the module binds no R: as the module   *)
(* stands, the statement at line 130 raises NameError, the import fails    *)
(* and no function of the module can be called.  The functions can be      *)
(* called only when the program that loads the module has made R resolve   *)
(* (through builtins).                                                     *)
(***************************************************************************)
EXTENDS Integers, Sequences, FiniteSets, TLC

VARIABLES names, call, alt

vars == <<names, call, alt>>

---------------------------------------------------------------------------
(* Bounds of the explored inputs *)

\* longest signal handed to a filter
MaxN == 3
\* longest signal handed to normalize, gate and amplifier
MaxLen == 3
\* longest gate signal handed to envelope
MaxGate == 4
\* largest sample rate and largest integer duration handed to time
MaxRate == 3

---------------------------------------------------------------------------
(* Exact rational arithmetic, standing for Python / numpy float arithmetic *)

RECURSIVE GCD(_, _)
GCD(a, b) == IF b = 0 THEN a ELSE GCD(b, a % b)

Abs(n) == IF n < 0 THEN -n ELSE n

Sign(n) == IF n < 0 THEN -1 ELSE IF n = 0 THEN 0 ELSE 1

Rat(n, d) ==
    IF d = 0 THEN <<Sign(n), 0>>
    ELSE LET g == GCD(Abs(n), Abs(d))
             s == IF d < 0 THEN -1 ELSE 1
         IN  <<(s * n) \div g, (s * d) \div g>>

Q(n) == <<n, 1>>

NaN == <<0, 0>>

IsFinite(a) == a[2] # 0

IsNaN(a) == a = NaN

RAdd(a, b) ==
    IF ~IsFinite(a) \/ ~IsFinite(b) THEN
        (IF IsFinite(a) THEN b ELSE IF IsFinite(b) \/ a = b THEN a ELSE NaN)
    ELSE LET g == GCD(a[2], b[2])
         IN  Rat(a[1] * (b[2] \div g) + b[1] * (a[2] \div g), (a[2] \div g) * b[2])

RNeg(a) == <<-a[1], a[2]>>

RSub(a, b) == RAdd(a, RNeg(b))

RMul(a, b) ==
    IF ~IsFinite(a) \/ ~IsFinite(b) THEN <<Sign(a[1]) * Sign(b[1]), 0>>
    ELSE LET g1 == GCD(Abs(a[1]), b[2])
             g2 == GCD(Abs(b[1]), a[2])
         IN  Rat((a[1] \div g1) * (b[1] \div g2), (a[2] \div g2) * (b[2] \div g1))

\* float division as numpy does it (IEEE, the zero being +0): only 0/0,
\* inf/inf and a nan operand give nan; x/0 is +-inf, never an exception
RDiv(a, b) ==
    IF IsNaN(a) \/ IsNaN(b) THEN NaN
    ELSE IF ~IsFinite(a) THEN
        (IF ~IsFinite(b) THEN NaN
         ELSE <<a[1] * (IF b[1] < 0 THEN -1 ELSE 1), 0>>)
    ELSE IF ~IsFinite(b) THEN Q(0)
    ELSE IF b[1] = 0 THEN <<Sign(a[1]), 0>>
    ELSE RMul(a, Rat(b[2], b[1]))

\* a < b on floats: false when either is nan
RLess(a, b) ==
    IF IsNaN(a) \/ IsNaN(b) THEN FALSE
    ELSE IF ~IsFinite(a) THEN a[1] < 0 /\ b # a
    ELSE IF ~IsFinite(b) THEN b[1] > 0
    ELSE a[1] * b[2] < b[1] * a[2]

\* a >= b on floats: false when either is nan
RGeq(a, b) == ~IsNaN(a) /\ ~IsNaN(b) /\ ~RLess(a, b)

RAbs(a) == <<Abs(a[1]), a[2]>>

IsInteger(a) == a[2] = 1

\* the integer part of a finite q (Python int(q): towards zero)
Trunc(q) == IF q[1] >= 0 THEN q[1] \div q[2] ELSE -((-q[1]) \div q[2])

\* 2*np.pi: the double 6.283185307179586 is the nearest double to this
\* rational
TwoPi == Rat(491701844, 78256779)

---------------------------------------------------------------------------
(* Outcomes of a call *)

Returned(v) == [status |-> "ok", value |-> v]

Raised(e) == [status |-> e, value |-> <<>>]

\* a Parameter: a Python scalar or a numpy array
Scalar(q) == [kind |-> "scalar", v |-> <<q>>]

Array(s) == [kind |-> "array", v |-> s]

NoParam == Array(<<>>)

\* what a call leaves behind: its outcome and the caller's arrays after it
Outcome(ret, sig, p1, p2) == [ret |-> ret, sig |-> sig, p1 |-> p1, p2 |-> p2]

---------------------------------------------------------------------------
(* numpy helpers *)

Range(s) == {s[i] : i \in DOMAIN s}

\* x.max() of a non-empty array (nan when a sample is nan)
ArrMax(s) ==
    IF NaN \in Range(s) THEN NaN
    ELSE CHOOSE m \in Range(s) : \A v \in Range(s) : ~RLess(m, v)

\* x.min() of a non-empty array (nan when a sample is nan)
ArrMin(s) ==
    IF NaN \in Range(s) THEN NaN
    ELSE CHOOSE m \in Range(s) : \A v \in Range(s) : ~RLess(v, m)

\* Python max(a, b, key=abs): the first of the two with the largest key
MaxByAbs(a, b) == IF RLess(RAbs(a), RAbs(b)) THEN b ELSE a

\* np.linspace(start, stop, num) for an integer num >= 0 (endpoint=True)
linspace(start, stop, num) ==
    [i \in 1..num |->
        IF num > 1 /\ i = num THEN stop
        ELSE IF num = 1 THEN start
        ELSE RAdd(start, RMul(Q(i - 1), RDiv(RSub(stop, start), Q(num - 1))))]

---------------------------------------------------------------------------
(* TimeBase *)

\* time(t0, T, sample_rate): np.linspace(t0, t0 + T, num=T * sample_rate),
\* as the set of outcomes the numpy in use can produce.  num is a Python int
\* only when T and sample_rate both are; a float num, whatever its value, is
\* rejected by numpy from 1.18 on (TypeError) and truncated to an int by the
\* releases before it.  A negative number of samples is a ValueError.
time(t0, T, sample_rate) ==
    LET num == RMul(T, sample_rate)
        samples(n) == IF n < 0 THEN Raised("ValueError")
                      ELSE Returned(linspace(t0, RAdd(t0, T), n))
    IN  IF IsInteger(T) /\ IsInteger(sample_rate) THEN {samples(num[1])}
        ELSE {Raised("TypeError"), samples(Trunc(num))}

\* a Python call of time with the positional arguments args: the three
\* parameters t0, T, sample_rate have no defaults, so any other number of
\* arguments is a TypeError
timeCall(args) ==
    IF Len(args) # 3 THEN {Raised("TypeError")}
    ELSE time(args[1], args[2], args[3])

---------------------------------------------------------------------------
(* SignalUtilities *)

\* normalize(x): y = x / max(x.max(), x.min(), key=abs), a new array
normalize(x) ==
    IF Len(x) = 0 THEN Outcome(Raised("ValueError"), x, NoParam, NoParam)
    ELSE LET m == MaxByAbs(ArrMax(x), ArrMin(x))
         IN  Outcome(Returned([i \in DOMAIN x |-> RDiv(x[i], m)]), x, NoParam, NoParam)

\* gate(x, threshold): np.piecewise(x, [x < threshold, x >= threshold], [0, 1])
\* writes 0 and 1 under the two masks into a new array of zeros; a nan
\* sample is under neither mask
gate(x, threshold) ==
    Outcome(Returned([i \in DOMAIN x |->
                         IF RLess(x[i], threshold) THEN Q(0)
                         ELSE IF RGeq(x[i], threshold) THEN Q(1)
                         ELSE Q(0)]),
            x, NoParam, NoParam)

\* element i (1-based) of an operand broadcast to length n
Bcast(p, i) == IF Len(p.v) = 1 THEN p.v[1] ELSE p.v[i]

\* amplifier(x1, x2, gain, bias): np.add(np.multiply(gain, np.multiply(x1, x2)), bias)
amplifier(x1, x2, gain, bias) ==
    LET n1 == Len(x1)
        n2 == Len(x2.v)
        n  == IF n1 = 1 THEN n2 ELSE n1
    IN  IF x2.kind = "array" /\ n1 # n2 /\ n1 # 1 /\ n2 # 1
        THEN Outcome(Raised("ValueError"), x1, x2, NoParam)
        ELSE Outcome(Returned([i \in 1..n |->
                         RAdd(RMul(gain, RMul(Bcast(Array(x1), i), Bcast(x2, i))), bias)]),
                     x1, x2, NoParam)

---------------------------------------------------------------------------
(* RecursiveFilter *)

\* the outcome of subscripting parameter p with the 0-based index n: a Python
\* scalar is not subscriptable (scalarErr), an array raises past its end
Subscript(p, n, scalarErr) ==
    IF p.kind = "scalar" THEN scalarErr
    ELSE IF n >= Len(p.v) THEN "IndexError"
    ELSE "ok"

\* element n (0-based) of an array
At(s, n) == s[n + 1]

\* one pass of the low-pass loop body, lines 161-164: Y = <<y1, y2, y3, y4>>
\* are the values at index n, the result the values at index n + 1
LowpassStep(Y, xn, omegan, kn, dt) ==
    LET g == RMul(dt, omegan) IN
    << RAdd(Y[1], RMul(g, RSub(RSub(xn, Y[1]), RMul(kn, Y[4])))),
       RAdd(Y[2], RMul(g, RSub(Y[1], Y[2]))),
       RAdd(Y[3], RMul(g, RSub(Y[2], Y[3]))),
       RAdd(Y[4], RMul(g, RSub(Y[3], Y[4]))) >>

\* the low-pass loop from index n on: y4 is the output written so far
\* (indices 0..n), Y the four stage values at index n
RECURSIVE LowpassLoop(_, _, _, _, _, _, _)
LowpassLoop(x, fc, k, dt, n, Y, y4) ==
    IF n >= Len(x) - 1 THEN Returned(y4)
    ELSE IF Subscript(fc, n, "IndexError") # "ok" THEN Raised(Subscript(fc, n, "IndexError"))
    ELSE IF Subscript(k, n, "TypeError") # "ok" THEN Raised(Subscript(k, n, "TypeError"))
    ELSE LET Z == LowpassStep(Y, At(x, n), RMul(TwoPi, At(fc.v, n)), At(k.v, n), dt)
         IN  LowpassLoop(x, fc, k, dt, n + 1, Z, Append(y4, Z[4]))

\* the body of lowpass(x, fc, k, sample_rate): the state arrays y1..y4 are
\* new arrays (np.zeros), omega = np.multiply(2*np.pi, fc) is a numpy scalar
\* for a scalar fc, dt = 1/sample_rate is a Python division
lowpass(x, fc, k, sample_rate) ==
    LET ret ==
        IF Subscript(fc, 0, "IndexError") # "ok" \/ Len(x) = 0 THEN Raised("IndexError")
        ELSE IF sample_rate[1] = 0 THEN Raised("ZeroDivisionError")
        ELSE LET w  == RMul(TwoPi, At(fc.v, 0))
                 c  == RDiv(w, RAdd(Q(1), w))
                 a1 == RMul(c, At(x, 0))
                 a2 == RMul(c, a1)
                 a3 == RMul(c, a2)
                 a4 == RMul(c, a3)
             IN  LowpassLoop(x, fc, k, RDiv(Q(1), sample_rate), 0,
                             <<a1, a2, a3, a4>>, <<a4>>)
    IN  Outcome(ret, x, fc, k)

\* one pass of the high-pass loop body, lines 199-202
HighpassStep(Y, xn, xn1, alphan, kn) ==
    LET z1 == RMul(alphan, RSub(RSub(RAdd(Y[1], xn1), xn), RMul(kn, Y[4])))
        z2 == RMul(alphan, RSub(RAdd(Y[2], z1), Y[1]))
        z3 == RMul(alphan, RSub(RAdd(Y[3], z2), Y[2]))
        z4 == RMul(alphan, RSub(RAdd(Y[4], z3), Y[3]))
    IN  <<z1, z2, z3, z4>>

\* alpha[n] = 1/(2*np.pi*dt*fc[n] + 1)
Alpha(fcn, dt) == RDiv(Q(1), RAdd(RMul(RMul(TwoPi, dt), fcn), Q(1)))

\* the high-pass loop reading the input one sample ahead (x[n+2] - x[n+1],
\* held at the last sample)
RECURSIVE HighpassLoopAhead(_, _, _, _, _, _, _)
HighpassLoopAhead(x, fc, k, dt, n, Y, y4) ==
    IF n >= Len(x) - 1 THEN Returned(y4)
    ELSE IF Subscript(fc, n, "TypeError") # "ok" THEN Raised(Subscript(fc, n, "TypeError"))
    ELSE IF Subscript(k, n, "TypeError") # "ok" THEN Raised(Subscript(k, n, "TypeError"))
    ELSE LET last == Len(x) - 1
             Z == HighpassStep(Y, At(x, n + 1), At(x, IF n + 2 > last THEN last ELSE n + 2),
                               Alpha(At(fc.v, n), dt), At(k.v, n))
         IN  HighpassLoopAhead(x, fc, k, dt, n + 1, Z, Append(y4, Z[4]))

RECURSIVE HighpassLoop(_, _, _, _, _, _, _)
HighpassLoop(x, fc, k, dt, n, Y, y4) ==
    IF n >= Len(x) - 1 THEN Returned(y4)
    ELSE IF Subscript(fc, n, "TypeError") # "ok" THEN Raised(Subscript(fc, n, "TypeError"))
    ELSE IF Subscript(k, n, "TypeError") # "ok" THEN Raised(Subscript(k, n, "TypeError"))
    ELSE LET Z == HighpassStep(Y, At(x, n), At(x, n + 1), Alpha(At(fc.v, n), dt), At(k.v, n))
         IN  HighpassLoop(x, fc, k, dt, n + 1, Z, Append(y4, Z[4]))

\* the body of highpass(x, fc, k, sample_rate): the state arrays are new
\* arrays; dt = 1/sample_rate is a Python division; alpha is computed before
\* the loop, for a scalar fc by a Python division (a Python float), for an
\* array by numpy
highpass(x, fc, k, sample_rate) ==
    LET ret ==
        IF Len(x) = 0 THEN Raised("IndexError")
        ELSE IF sample_rate[1] = 0 THEN Raised("ZeroDivisionError")
        ELSE IF /\ fc.kind = "scalar"
                /\ RAdd(RMul(RMul(TwoPi, RDiv(Q(1), sample_rate)), fc.v[1]), Q(1)) = Q(0)
             THEN Raised("ZeroDivisionError")
        ELSE LET x0 == At(x, 0)
             IN  HighpassLoop(x, fc, k, RDiv(Q(1), sample_rate), 0,
                              <<x0, x0, x0, x0>>, <<x0>>)
    IN  Outcome(ret, x, fc, k)

---------------------------------------------------------------------------
(* EnvelopeGenerator *)

\* the runs of g, in order: np.array_split(gate,
\* np.where(np.diff(gate) != 0)[0] + 1), a split after every sample whose
\* difference to the next is not 0 (nan is not 0); an empty gate gives one
\* empty run
RECURSIVE Runs(_)
Runs(g) ==
    IF Len(g) = 0 THEN << <<>> >>
    ELSE LET rest == Runs(Tail(g))
         IN  IF Len(g) > 1 /\ RSub(g[2], g[1]) = Q(0)
             THEN <<(<<g[1]>> \o Head(rest))>> \o Tail(rest)
             ELSE IF Len(g) > 1 THEN << <<g[1]>> >> \o rest
             ELSE << <<g[1]>> >>

RECURSIVE Concat(_)
Concat(ss) == IF Len(ss) = 0 THEN <<>> ELSE Head(ss) \o Concat(Tail(ss))

\* np.all(y == 1)
AllOne(y) == \A i \in DOMAIN y : y[i] = Q(1)

\* y[0:len(src)] = src can be done: the slice has min(len(src), len(y))
\* elements and src must have as many, or one (broadcast)
PrefixFits(y, src) == Len(src) <= Len(y) \/ Len(src) = 1

\* y after y[0:len(src)] = src
PrefixSet(y, src) ==
    [i \in DOMAIN y |-> IF i <= Len(src) THEN src[i]
                        ELSE y[i]]

\* y after y[start:] = v, start 0-based
FillFrom(y, start, v) == [i \in DOMAIN y |-> IF i > start THEN v ELSE y[i]]

\* the loop over Y[1:], lines 250-256, from run number i on: runs are views of
\* the gate array, so what is written into a run is written into the gate
RECURSIVE FillRuns(_, _, _, _, _)
FillRuns(Y, i, AD, release, S) ==
    IF i > Len(Y) THEN [status |-> "ok", Y |-> Y]
    ELSE LET y   == Y[i]
             src == IF AllOne(y) THEN AD ELSE release
             v   == IF AllOne(y) THEN S ELSE Q(0)
         IN  IF ~PrefixFits(y, src) THEN [status |-> "ValueError", Y |-> Y]
             ELSE FillRuns([Y EXCEPT ![i] = FillFrom(PrefixSet(y, src), Len(src) + 1, v)],
                           i + 1, AD, release, S)

\* lines 237-257 of envelope once the three time(...) calls have had the
\* outcomes tA, tD, tR
envelopeBody(gateSig, tA, tD, tR, A, D, S, R) ==
    IF tA.status # "ok" THEN Outcome(Raised(tA.status), gateSig, NoParam, NoParam)
    ELSE IF tD.status # "ok" THEN Outcome(Raised(tD.status), gateSig, NoParam, NoParam)
    ELSE IF tR.status # "ok" THEN Outcome(Raised(tR.status), gateSig, NoParam, NoParam)
    ELSE
    LET attack  == [i \in DOMAIN tA.value |-> RDiv(tA.value[i], A)]
        decay   == [i \in DOMAIN tD.value |->
                       RSub(Q(1), RDiv(RMul(tD.value[i], S), D))]
        release == [i \in DOMAIN tR.value |->
                       RSub(S, RDiv(RMul(tR.value[i], S), R))]
        AD      == attack \o decay
        Y       == Runs(gateSig)
        high    == AllOne(Y[1])
    IN  IF high /\ ~PrefixFits(Y[1], AD)
        THEN Outcome(Raised("ValueError"), gateSig, NoParam, NoParam)
        ELSE LET Y1   == IF high
                         THEN [Y EXCEPT ![1] = FillFrom(PrefixSet(Y[1], AD), Len(AD), S)]
                         ELSE Y
                 rest == FillRuns(Y1, 2, AD, release, S)
             IN  IF rest.status # "ok"
                 THEN Outcome(Raised(rest.status), Concat(rest.Y), NoParam, NoParam)
                 ELSE IF ~high
                 \* Y[0] = 0 put a scalar in the list: np.concatenate rejects it
                 THEN Outcome(Raised("ValueError"), Concat(rest.Y), NoParam, NoParam)
                 ELSE Outcome(Returned(Concat(rest.Y)), Concat(rest.Y), NoParam, NoParam)

\* envelope(gate, A, D, S, R): the masks are built from time(A), time(D) and
\* time(R), calls of time with one argument
envelope(gateSig, A, D, S, R) ==
    { envelopeBody(gateSig, tA, tD, tR, A, D, S, R) :
        tA \in timeCall(<<A>>), tD \in timeCall(<<D>>), tR \in timeCall(<<R>>) }

---------------------------------------------------------------------------
(* The module's namespace *)

\* the functions defined by the statements before line 130
DefinedBefore130 ==
    {"time", "sine_wave", "square_wave", "sawtooth_wave", "white_noise",
     "brownian_noise"}

\* the functions defined by the statements from line 130 on
DefinedFrom130 ==
    {"lowpass", "highpass", "amplifier", "envelope", "normalize", "gate",
     "sample_and_hold"}

\* the functions a caller can reach after importing the module: the def of
\* lowpass at line 130 evaluates R and raises NameError unless R resolves,
\* the import fails with it and binds no module, time and the functions
\* defined before line 130 included
Load(resolvesR) ==
    IF resolvesR THEN DefinedBefore130 \cup DefinedFrom130 ELSE {}

\* the call of a function of the module whose import failed
Undefined(sig, p1, p2) == Outcome(Raised("NameError"), sig, p1, p2)

---------------------------------------------------------------------------
(* Inputs *)

RECURSIVE SeqsUpTo(_, _)
SeqsUpTo(S, n) ==
    IF n = 0 THEN {<<>>}
    ELSE LET shorter == SeqsUpTo(S, n - 1)
         IN  shorter \cup {Append(s, v) : s \in {t \in shorter : Len(t) = n - 1}, v \in S}

Samples == {Q(-2), Q(-1), Q(0), Q(1), Rat(1, 2)}

Times == {Q(0), Q(1), Q(-1)}

Durations == {Q(d) : d \in 1..MaxRate} \cup {Rat(1, 2), Rat(3, 2)}

Rates == {Q(r) : r \in 1..MaxRate}

\* cutoff frequencies for which omega = TwoPi * fc is 1 and 3
FcA == RDiv(Q(1), TwoPi)

FcB == RDiv(Q(3), TwoPi)

FilterSignals == SeqsUpTo({Q(0), Q(1)}, MaxN)

Cutoffs == {Scalar(FcA)} \cup {Array(s) : s \in SeqsUpTo({FcA, FcB}, MaxN)}

Feedbacks == {Scalar(Q(1))} \cup {Array(s) : s \in SeqsUpTo({Q(0), Q(1)}, MaxN)}

SampleRates == {Q(1), Q(2)}

\* the gate of the literal scenario: ten samples, all high
TenOnes == [i \in 1..10 |-> Q(1)]

GateSignals == SeqsUpTo({Q(0), Q(1)}, MaxGate) \cup {TenOnes}

SegmentLengths == {Q(1), Q(2), Q(3)}

SustainLevels == {Q(0), Rat(1, 2), Q(1)}

NoCall ==
    [op |-> "none", sig |-> <<>>, p1 |-> NoParam, p2 |-> NoParam, nums |-> <<>>,
     ret |-> Returned(<<>>), sigAfter |-> <<>>, p1After |-> NoParam, p2After |-> NoParam]

\* the record of a call of op on (sig, p1, p2, nums) that left out behind
Called(op, sig, p1, p2, nums, out) ==
    [op |-> op, sig |-> sig, p1 |-> p1, p2 |-> p2, nums |-> nums,
     ret |-> out.ret, sigAfter |-> out.sig, p1After |-> out.p1, p2After |-> out.p2]

---------------------------------------------------------------------------
(* The caller *)

Init ==
    /\ names \in {Load(FALSE), Load(TRUE)}
    /\ call = NoCall
    /\ alt = NoCall

Idle == call.op = "none"

CallTime ==
    /\ Idle
    /\ \E t0 \in Times, T \in Durations, sr \in Rates :
       \E r \in IF "time" \in names THEN timeCall(<<t0, T, sr>>)
                 ELSE {Raised("NameError")} :
        /\ call' = Called("time", <<>>, NoParam, NoParam, <<t0, T, sr>>,
                          Outcome(r, <<>>, NoParam, NoParam))
        /\ alt' = NoCall
        /\ UNCHANGED names

CallNormalize ==
    /\ Idle
    /\ \E x \in SeqsUpTo(Samples, MaxLen) :
        /\ call' = Called("normalize", x, NoParam, NoParam, <<>>,
                          IF "normalize" \in names THEN normalize(x)
                          ELSE Undefined(x, NoParam, NoParam))
        /\ alt' = NoCall
        /\ UNCHANGED names

CallGate ==
    /\ Idle
    /\ \E x \in SeqsUpTo(Samples \cup {NaN}, MaxLen), th \in {Rat(1, 2), Q(0)} :
        /\ call' = Called("gate", x, NoParam, NoParam, <<th>>,
                          IF "gate" \in names THEN gate(x, th)
                          ELSE Undefined(x, NoParam, NoParam))
        /\ alt' = NoCall
        /\ UNCHANGED names

CallAmplifier ==
    /\ Idle
    /\ \E x1 \in SeqsUpTo({Q(-1), Q(1), Rat(1, 2)}, MaxLen) \ {<<>>},
       x2 \in {Scalar(Q(2))} \cup {Array(s) : s \in SeqsUpTo({Q(0), Q(1)}, MaxLen) \ {<<>>}},
       gb \in {<<Q(1), Q(0)>>, <<Q(2), Q(1)>>} :
        /\ call' = Called("amplifier", x1, x2, NoParam, gb,
                          IF "amplifier" \in names THEN amplifier(x1, x2, gb[1], gb[2])
                          ELSE Undefined(x1, x2, NoParam))
        /\ alt' = NoCall
        /\ UNCHANGED names

CallFilter ==
    /\ Idle
    /\ \E f \in {"lowpass", "highpass"}, x \in FilterSignals, fc \in Cutoffs,
          k \in Feedbacks, sr \in SampleRates :
        /\ call' = Called(f, x, fc, k, <<sr>>,
                          IF f \notin names THEN Undefined(x, fc, k)
                          ELSE IF f = "lowpass" THEN lowpass(x, fc, k, sr)
                          ELSE highpass(x, fc, k, sr))
        /\ alt' = NoCall
        /\ UNCHANGED names

CallEnvelope ==
    /\ Idle
    /\ \E g \in GateSignals, A \in SegmentLengths, D \in SegmentLengths,
          S \in SustainLevels, R \in SegmentLengths :
       \E out \in IF "envelope" \in names THEN envelope(g, A, D, S, R)
                   ELSE {Undefined(g, NoParam, NoParam)} :
        /\ call' = Called("envelope", g, NoParam, NoParam, <<A, D, S, R>>, out)
        /\ alt' = NoCall
        /\ UNCHANGED names

\* the other value of a two-valued input domain
Other(v, S) == CHOOSE w \in S : w # v

\* a second run of the filter just run, on inputs that differ from the first
\* run's in one sample, at the 0-based index j >= 1 of x, fc or k
RerunFilter ==
    /\ call.op \in {"lowpass", "highpass"}
    /\ call.op \in names
    /\ call.ret.status = "ok"
    /\ alt = NoCall
    /\ \E which \in {"x", "fc", "k"}, j \in 1..(MaxN - 1) :
        LET x  == IF which = "x" /\ j < Len(call.sig)
                  THEN [call.sig EXCEPT ![j + 1] = Other(@, {Q(0), Q(1)})]
                  ELSE call.sig
            fc == IF which = "fc" /\ call.p1.kind = "array" /\ j < Len(call.p1.v)
                  THEN Array([call.p1.v EXCEPT ![j + 1] = Other(@, {FcA, FcB})])
                  ELSE call.p1
            k  == IF which = "k" /\ call.p2.kind = "array" /\ j < Len(call.p2.v)
                  THEN Array([call.p2.v EXCEPT ![j + 1] = Other(@, {Q(0), Q(1)})])
                  ELSE call.p2
            sr == call.nums[1]
        IN  /\ <<x, fc, k>> # <<call.sig, call.p1, call.p2>>
            /\ alt' = Called(call.op, x, fc, k, <<sr>>,
                             IF call.op = "lowpass" THEN lowpass(x, fc, k, sr)
                             ELSE highpass(x, fc, k, sr))
            /\ UNCHANGED <<names, call>>

Next == CallEnvelope \/ CallFilter \/ RerunFilter \/ CallTime \/ CallNormalize \/ CallGate \/ CallAmplifier

Spec == Init /\ [][Next]_vars

---------------------------------------------------------------------------
(* Properties *)

Filters == {"lowpass", "highpass"}

T0 == call.nums[1]

Dur == call.nums[2]

Rate == call.nums[3]

\* the 0-based offset of run i of the runs Y in their concatenation
RECURSIVE RunStart(_, _)
RunStart(Y, i) == IF i = 1 THEN 0 ELSE RunStart(Y, i - 1) + Len(Y[i - 1])

\* the attack+decay shape of the design: t/A for t = 0..A-1, then
\* 1 - t*S/D for t = 0..D-1
ShapeAD(A, D, S) ==
    [t \in 1..(A[1] + D[1]) |->
        IF t <= A[1] THEN RDiv(Q(t - 1), A)
        ELSE RSub(Q(1), RDiv(RMul(Q(t - 1 - A[1]), S), D))]

\* a and b have the same samples at the 0-based indices 0..n
AgreeUpTo(a, b, n) ==
    \A i \in 1..(n + 1) :
        (i <= Len(a) \/ i <= Len(b)) => (i <= Len(a) /\ i <= Len(b) /\ a[i] = b[i])

\* C1: envelope returns an Envelope as long as its gate, for every gate and
\* all segment lengths
C1_EnvelopeKeepsLength ==
    call.op = "envelope" =>
        /\ call.ret.status = "ok"
        /\ Len(call.ret.value) = Len(call.sig)

\* C2: over every gate-high run after the first that is at least A+D samples
\* long, the envelope is the attack+decay shape and then the sustain level on
\* every remaining sample
C2_HighRunFilled ==
    LET Y == Runs(call.sig)
        A == call.nums[1]
        D == call.nums[2]
        S == call.nums[3]
        long == {i \in 2..Len(Y) : AllOne(Y[i]) /\ Len(Y[i]) >= A[1] + D[1]}
    IN  (call.op = "envelope" /\ long # {}) =>
            /\ call.ret.status = "ok"
            /\ \A i \in long : \A t \in 1..Len(Y[i]) :
                   call.ret.value[RunStart(Y, i) + t] =
                       IF t <= A[1] + D[1] THEN ShapeAD(A, D, S)[t] ELSE S

\* C3: when the first run of the gate is not gate-high, envelope returns and
\* every sample of that first run is 0
C3_LowFirstRunIsZero ==
    (call.op = "envelope" /\ Len(call.sig) > 0 /\ call.sig[1] # Q(1)) =>
        /\ call.ret.status = "ok"
        /\ \A t \in 1..Len(Runs(call.sig)[1]) : call.ret.value[t] = Q(0)

\* C4: envelope of ten high samples with A=3, D=2, S=0.5, R=2 is
\* [0, 1/3, 2/3, 1, 0.75, 0.5, 0.5, 0.5, 0.5, 0.5]
C4_LiteralScenario ==
    (/\ call.op = "envelope"
     /\ call.sig = TenOnes
     /\ call.nums = <<Q(3), Q(2), Rat(1, 2), Q(2)>>) =>
        /\ call.ret.status = "ok"
        /\ call.ret.value = <<Q(0), Rat(1, 3), Rat(2, 3), Q(1), Rat(3, 4), Rat(1, 2),
                              Rat(1, 2), Rat(1, 2), Rat(1, 2), Rat(1, 2)>>

\* C5: envelope returns and writes the envelope into a new Signal, and a
\* call of envelope, lowpass, highpass, normalize, gate or amplifier leaves
\* the caller's argument arrays with the values they had before it
C5_AsStated ==
    /\ call.op = "envelope" => call.ret.status = "ok"
    /\ call.op \in {"envelope", "lowpass", "highpass", "normalize", "gate", "amplifier"} =>
           /\ call.sigAfter = call.sig
           /\ call.p1After = call.p1
           /\ call.p2After = call.p2

\* C6: two runs of the same filter on inputs of the same length and sample
\* rate that agree at the indices 0..n give outputs that agree at 0..n
C6_Causal ==
    (/\ call.op \in Filters
     /\ alt.op = call.op
     /\ call.ret.status = "ok"
     /\ alt.ret.status = "ok"
     /\ Len(alt.sig) = Len(call.sig)
     /\ alt.nums = call.nums) =>
        \A n \in 0..(Len(call.sig) - 1) :
            (/\ AgreeUpTo(call.sig, alt.sig, n)
             /\ AgreeUpTo(call.p1.v, alt.p1.v, n)
             /\ AgreeUpTo(call.p2.v, alt.p2.v, n)) =>
                AgreeUpTo(call.ret.value, alt.ret.value, n)

\* two runs of highpass whose inputs first differ at the last index, where
\* their outputs differ too
C6_Witness ==
    /\ call.op = "highpass"
    /\ alt.op = "highpass"
    /\ call.ret.status = "ok"
    /\ alt.ret.status = "ok"
    /\ Len(call.sig) >= 3
    /\ AgreeUpTo(call.sig, alt.sig, Len(call.sig) - 2)
    /\ call.p1 = alt.p1
    /\ call.p2 = alt.p2
    /\ call.sig # alt.sig
    /\ call.ret.value # alt.ret.value

\* C7: a filter called with a scalar fc and a scalar k returns what it
\* returns for the constant arrays of length N holding those values
C7_ScalarsAccepted ==
    LET N  == Len(call.sig)
        fc == Array([i \in 1..N |-> call.p1.v[1]])
        k  == Array([i \in 1..N |-> call.p2.v[1]])
    IN  (/\ call.op \in Filters
         /\ N >= 1
         /\ call.p1.kind = "scalar"
         /\ call.p2.kind = "scalar") =>
            /\ call.ret.status = "ok"
            /\ call.ret = (IF call.op = "lowpass" THEN lowpass(call.sig, fc, k, call.nums[1])
                           ELSE highpass(call.sig, fc, k, call.nums[1])).ret

\* C8: with per-sample fc and k and N >= 1, a filter fails with an
\* index error when fc or k has fewer than N-1 elements and returns N
\* samples whenever both have at least N-1
C8_AsStated ==
    LET N == Len(call.sig) IN
    (/\ call.op \in Filters
     /\ N >= 1
     /\ call.p1.kind = "array"
     /\ call.p2.kind = "array") =>
        IF Len(call.p1.v) >= N - 1 /\ Len(call.p2.v) >= N - 1
        THEN call.ret.status = "ok" /\ Len(call.ret.value) = N
        ELSE call.ret.status = "IndexError"

\* C9 as stated: for T > 0 and sample_rate > 0, time returns
\* floor(T*sample_rate) samples, the first t0 and the last t0+T
C9_AsStated ==
    call.op = "time" =>
        LET v == call.ret.value
            num == RMul(Dur, Rate)
        IN  /\ call.ret.status = "ok"
            /\ Len(v) = num[1] \div num[2]
            /\ Len(v) >= 1 => (v[1] = T0 /\ v[Len(v)] = RAdd(T0, Dur))

\* C10: normalize fails on an all-zero x; for any other x it returns x
\* divided by whichever of max(x), min(x) has the larger magnitude, and the
\* largest absolute value of the result is 1
C10_Normalize ==
    LET x == call.sig
        y == call.ret.value
    IN  call.op = "normalize" =>
            IF \A i \in DOMAIN x : x[i] = Q(0)
            THEN call.ret.status # "ok"
            ELSE /\ call.ret.status = "ok"
                 /\ \E m \in {ArrMax(x), ArrMin(x)} :
                        /\ ~RLess(RAbs(m), RAbs(ArrMax(x)))
                        /\ ~RLess(RAbs(m), RAbs(ArrMin(x)))
                        /\ y = [i \in DOMAIN x |-> RDiv(x[i], m)]
                 /\ \E i \in DOMAIN y : RAbs(y[i]) = Q(1)
                 /\ \A i \in DOMAIN y : ~RLess(Q(1), RAbs(y[i]))

====
